---- MODULE Spec2Model ----
(***************************************************************************)
(* Model of the marketplace monitoring service (src/src/main.rs).          *)
(*                                                                         *)
(* One poller loop (main, lines 50-290) advances last_checked_block over   *)
(* new blocks, queries the JobOpened events of the range, filters them by  *)
(* their metadata and spawns one verification task per in-scope event.     *)
(* Each spawned task (lines 139-285) sleeps, resolves the instance         *)
(* address, probes reachability, calls the refresh API and inserts error   *)
(* rows into two tables (src/src/models.rs).                               *)
(*                                                                         *)
(* The poller is split at its await points: interval.tick + block number,  *)
(* the event query, one loop iteration per event, and the watermark        *)
(* update.  A task is split at its await points as well; the database      *)
(* calls are synchronous and belong to the step that makes them.           *)
(* Row ids and timestamps are assigned by the database and the clock and   *)
(* are left out of the rows.                                               *)
(***************************************************************************)
EXTENDS Naturals, Integers, Sequences, FiniteSets, Bags, TLC

VARIABLES
    last_checked_block,   \* main.rs:44  the watermark
    current_block,        \* main.rs:53  head observed in the running tick
    events,               \* main.rs:73  events of the range still to iterate
    pc,                   \* position of the poller loop
    workers,              \* main.rs:139 spawned tasks, in spawn order
    reachability_errors,  \* models.rs:42 rows of the reachability table
    operator_endpoint_errors, \* models.rs:87 rows of the endpoint table
    \* history of the run, read by the properties only
    initial_block,        \* watermark set at startup
    rpc_failed,           \* a block-number or event query has failed
    lost,                 \* jobs of the in-scope events whose providers() lookup failed
    queried,              \* per block: times passed to the event query (2 = more than
                          \* once), kept as long as no block-number or event query failed
    query_from,           \* from_block of the event query of the latest tick, if it made one
    tick_outcome,         \* how the latest tick ended, "running" while it runs
    tick_start_wm,        \* watermark when the latest tick started
    tick_start_spawned    \* number of tasks when the latest tick started

vars == <<last_checked_block, current_block, events, pc, workers,
          reachability_errors, operator_endpoint_errors,
          initial_block, rpc_failed, lost, queried, query_from,
          tick_outcome, tick_start_wm, tick_start_spawned>>

pollerVars == <<last_checked_block, current_block, events, pc>>
tableVars == <<reachability_errors, operator_endpoint_errors>>
tickHistory == <<tick_outcome, tick_start_wm, tick_start_spawned>>

----------------------------------------------------------------------------
(* Bounds of the model *)

\* highest block height the chain client reports
MaxBlock == 3
\* highest head the startup block-number query returns
MaxInitialBlock == 1
\* polls the address resolver makes before it gives up
MaxResolvePolls == 1

NoBlock == 0 - 1

Max(a, b) == IF a >= b THEN a ELSE b

----------------------------------------------------------------------------
(* Rendering of byte strings: "0x" + hex::encode(bytes), format!("{:?}", address) *)

HexDigits == <<"0", "1", "2", "3", "4", "5", "6", "7",
               "8", "9", "a", "b", "c", "d", "e", "f">>

HexByte(b) == HexDigits[(b \div 16) + 1] \o HexDigits[(b % 16) + 1]

RECURSIVE HexEncode(_)
HexEncode(bytes) ==
    IF bytes = <<>> THEN "" ELSE HexByte(Head(bytes)) \o HexEncode(Tail(bytes))

JobString(bytes) == "0x" \o HexEncode(bytes)

OperatorStr(address) == "0x" \o HexEncode(address)

----------------------------------------------------------------------------
(* The metadata filter *)

Some(v) == <<v>>
None == <<>>

allowed_urls ==
    {"https://artifacts.marlin.org/oyster/eifs/base-blue_v3.0.0_linux_amd64.eif",
     "https://artifacts.marlin.org/oyster/eifs/base-blue_v3.0.0_linux_arm64.eif"}

\* serde_json::from_str::<Metadata>: a payload that is no JSON object of the
\* expected shape is an error; otherwise the three optional fields are read.
ParseMetadata(metadata_str) ==
    IF metadata_str.json
    THEN [ok |-> TRUE,
          url |-> metadata_str.url,
          instance |-> metadata_str.instance,
          region |-> metadata_str.region]
    ELSE [ok |-> FALSE]

UrlAllowed_AnyUrl(metadata) == metadata.url # None

\* if let Some(url) = &metadata.url { allowed_urls.contains(url) } else { skip }
UrlAllowed(metadata) ==
    /\ metadata.url # None
    /\ metadata.url[1] \in allowed_urls

\* metadata.region.as_deref().unwrap_or("")
RegionOf(metadata) == IF metadata.region = None THEN "" ELSE metadata.region[1]

----------------------------------------------------------------------------
(* The chain the event source reads: the JobOpened logs of each block, in  *)
(* log order.  Job ids and addresses are shortened to two bytes.           *)

Payload(url, region) ==
    [json |-> TRUE, url |-> url, instance |-> None, region |-> region]

Malformed == [json |-> FALSE]

OtherUrl == "https://example.org/custom.eif"
AmdUrl == "https://artifacts.marlin.org/oyster/eifs/base-blue_v3.0.0_linux_amd64.eif"
ArmUrl == "https://artifacts.marlin.org/oyster/eifs/base-blue_v3.0.0_linux_arm64.eif"

JobOpened(job, provider, metadata, block) ==
    [job |-> job, owner |-> <<240, 1>>, provider |-> provider,
     metadata |-> metadata, block |-> block]

LogsOfBlock(b) ==
    CASE b = 0 -> << JobOpened(<<171, 192>>, <<10, 2>>, Payload(Some(AmdUrl), None), 0) >>
      [] b = 1 -> << JobOpened(<<171, 193>>, <<10, 1>>, Payload(Some(AmdUrl), Some("us-east")), 1) >>
      [] b = 2 -> << JobOpened(<<171, 194>>, <<10, 1>>, Malformed, 2),
                     JobOpened(<<171, 195>>, <<10, 2>>, Payload(Some(ArmUrl), None), 2) >>
      [] b = 3 -> << JobOpened(<<171, 196>>, <<10, 2>>, Payload(None, Some("us-east")), 3),
                     JobOpened(<<171, 197>>, <<10, 1>>, Payload(Some(OtherUrl), None), 3) >>
      [] OTHER -> << >>

RECURSIVE LogsInRange(_, _)
\* contract.event::<JobOpenedFilter>().from_block(from).to_block(to).query()
LogsInRange(from, to) ==
    IF from > to THEN << >> ELSE LogsOfBlock(from) \o LogsInRange(from + 1, to)

\* contract.providers(operator): the operator's control-plane URL
ProviderUrl(operator) == "https://cp." \o HexEncode(operator) \o ".example"

SeqToSet(s) == {s[i] : i \in 1..Len(s)}

AllLogs == SeqToSet(LogsInRange(0, MaxBlock))

\* an event the metadata filter lets through
InScope(event) ==
    LET m == ParseMetadata(event.metadata) IN m.ok /\ UrlAllowed(m)

----------------------------------------------------------------------------
(* The poller loop *)

NoNewBlocks_OnlyEqual(current, last) == current = last

\* if current_block <= last_checked_block { continue; }
NoNewBlocks(current, last) == current <= last

FromBlock_Inclusive(last) == last

\* .from_block(last_checked_block + 1)
FromBlock(last) == last + 1

Covered(count, from, to) ==
    [b \in 1..MaxBlock |->
        IF from <= b /\ b <= to
        THEN (IF count[b] >= 2 THEN 2 ELSE count[b] + 1)
        ELSE count[b]]

NotKept == [b \in 1..MaxBlock |-> 0]

TickStart ==
    /\ tick_start_wm' = last_checked_block
    /\ tick_start_spawned' = Len(workers)

\* no refresh response yet
NotCalled == [kind |-> "not_called"]

\* tokio::spawn(async move { ... }): the task owns job, operator, cp_url, metadata
NewTask(event, cp_url, metadata) ==
    [job |-> JobString(event.job),
     owner |-> event.owner,
     operator |-> event.provider,
     cp_url |-> cp_url,
     region |-> RegionOf(metadata),
     stage |-> "AwaitingStartup",
     polls |-> 0,          \* polls made by the running wait_for_ip_address call
     instance_ip |-> "",
     reachable |-> "untested",
     refresh |-> NotCalled,
     records |-> << >>,
     db_error_logs |-> 0]

\* interval.tick().await; provider.get_block_number() fails: log, continue
PollHeadErr ==
    /\ pc = "tick"
    /\ TickStart
    /\ tick_outcome' = "head_failed"
    /\ rpc_failed' = TRUE
    /\ queried' = NotKept
    /\ current_block' = NoBlock
    /\ query_from' = NoBlock
    /\ UNCHANGED <<last_checked_block, events, pc, workers, tableVars, initial_block,
                   lost>>

\* interval.tick().await; the head is not above the watermark: continue
PollHeadNoNew ==
    /\ pc = "tick"
    /\ \E block \in 0..MaxBlock :
        /\ NoNewBlocks(block, last_checked_block)
        /\ current_block' = block
    /\ TickStart
    /\ tick_outcome' = "no_new"
    /\ query_from' = NoBlock
    /\ UNCHANGED <<last_checked_block, events, pc, workers, tableVars, initial_block,
                   rpc_failed, lost, queried>>

\* interval.tick().await; the head is above the watermark: go on to the event query
PollHeadNew ==
    /\ pc = "tick"
    /\ \E block \in 0..MaxBlock :
        /\ ~NoNewBlocks(block, last_checked_block)
        /\ current_block' = block
    /\ TickStart
    /\ tick_outcome' = "running"
    /\ query_from' = NoBlock
    /\ pc' = "query"
    /\ UNCHANGED <<last_checked_block, events, workers, tableVars, initial_block,
                   rpc_failed, lost, queried>>

QueryIssued(failed) ==
    /\ query_from' = FromBlock(last_checked_block)
    /\ rpc_failed' = (rpc_failed \/ failed)
    /\ queried' = IF rpc_failed \/ failed
                  THEN NotKept
                  ELSE Covered(queried, FromBlock(last_checked_block), current_block)

QueryEventsErr_Advances ==
    /\ pc = "query"
    /\ QueryIssued(TRUE)
    /\ last_checked_block' = current_block
    /\ pc' = "tick"
    /\ tick_outcome' = "query_failed"
    /\ UNCHANGED <<current_block, events, workers, tableVars, initial_block,
                   lost, tick_start_wm, tick_start_spawned>>

\* the event query fails: log, continue
QueryEventsErr ==
    /\ pc = "query"
    /\ QueryIssued(TRUE)
    /\ pc' = "tick"
    /\ tick_outcome' = "query_failed"
    /\ UNCHANGED <<last_checked_block, current_block, events, workers, tableVars,
                   initial_block, lost, tick_start_wm, tick_start_spawned>>

Reverse(s) == [k \in 1..Len(s) |-> s[Len(s) + 1 - k]]

QueryEventsOk_Reversed ==
    /\ pc = "query"
    /\ QueryIssued(FALSE)
    /\ events' = Reverse(LogsInRange(FromBlock(last_checked_block), current_block))
    /\ pc' = "events"
    /\ UNCHANGED <<last_checked_block, current_block, workers, tableVars,
                   initial_block, lost, tickHistory>>

\* the event query returns the logs of [last_checked_block + 1, current_block]
QueryEventsOk ==
    /\ pc = "query"
    /\ QueryIssued(FALSE)
    /\ events' = LogsInRange(FromBlock(last_checked_block), current_block)
    /\ pc' = "events"
    /\ UNCHANGED <<last_checked_block, current_block, workers, tableVars,
                   initial_block, lost, tickHistory>>

\* one iteration of `for event in events`, the providers() lookup failing
HandleEventLookupErr ==
    /\ pc = "events"
    /\ events # << >>
    /\ events' = Tail(events)
    /\ lost' = IF InScope(Head(events))
               THEN lost \cup {JobString(Head(events).job)}
               ELSE lost
    /\ UNCHANGED <<last_checked_block, current_block, pc, workers, tableVars,
                   initial_block, rpc_failed, queried, query_from, tickHistory>>

HandleEvent_AwaitsTask ==
    /\ pc = "events"
    /\ events # << >>
    /\ \A i \in 1..Len(workers) : workers[i].stage = "Done"
    /\ LET event == Head(events)
           cp_url == ProviderUrl(event.provider)
           metadata == ParseMetadata(event.metadata)
       IN  workers' = IF metadata.ok /\ UrlAllowed(metadata)
                      THEN Append(workers, NewTask(event, cp_url, metadata))
                      ELSE workers
    /\ events' = Tail(events)
    /\ UNCHANGED <<last_checked_block, current_block, pc, tableVars, initial_block,
                   rpc_failed, lost, queried, query_from, tickHistory>>

\* one iteration of `for event in events`, the providers() lookup succeeding:
\* parse the metadata, test the image URL, spawn the task
HandleEvent ==
    /\ pc = "events"
    /\ events # << >>
    /\ LET event == Head(events)
           cp_url == ProviderUrl(event.provider)
           metadata == ParseMetadata(event.metadata)
       IN  workers' = IF metadata.ok /\ UrlAllowed(metadata)
                      THEN Append(workers, NewTask(event, cp_url, metadata))
                      ELSE workers
    /\ events' = Tail(events)
    /\ UNCHANGED <<last_checked_block, current_block, pc, tableVars, initial_block,
                   rpc_failed, lost, queried, query_from, tickHistory>>

AdvanceWatermark_OffByOne ==
    /\ pc = "events"
    /\ events = << >>
    /\ last_checked_block' = current_block - 1
    /\ pc' = "tick"
    /\ tick_outcome' = "advanced"
    /\ UNCHANGED <<current_block, events, workers, tableVars, initial_block,
                   rpc_failed, lost, queried, query_from, tick_start_wm,
                   tick_start_spawned>>

\* after the loop: last_checked_block = current_block
AdvanceWatermark ==
    /\ pc = "events"
    /\ events = << >>
    /\ last_checked_block' = current_block
    /\ pc' = "tick"
    /\ tick_outcome' = "advanced"
    /\ UNCHANGED <<current_block, events, workers, tableVars, initial_block,
                   rpc_failed, lost, queried, query_from, tick_start_wm,
                   tick_start_spawned>>

----------------------------------------------------------------------------
(* The failure recorder: pool.get() and insert (models.rs)                  *)

\* what one write attempt meets: a connection and a successful insert, no
\* connection from the pool, or a failing insert
DbOutcomes == {"ok", "no_conn", "insert_err"}

\* NewReachabilityError::new / NewOperatorEndpointError::new (timestamp left out)
NewError(job, operator, ip, error) ==
    [job |-> job, operator |-> operator, ip |-> ip, error |-> error]

\* diesel::insert_into(table).values(self).get_result(conn)
Insert(table, row, db) ==
    IF db = "ok" THEN table (+) SetToBag({row}) ELSE table

\* if let Ok(mut conn) = pool.get() { if let Err(e) = insert { error!(..) } }
InsertErrorLogged(db) == IF db = "insert_err" THEN 1 ELSE 0

\* the task after one write attempt
Recorded(w, kind, row, db) ==
    [w EXCEPT !.records = Append(@, [table |-> kind, row |-> row, db |-> db]),
              !.db_error_logs = @ + InsertErrorLogged(db)]

----------------------------------------------------------------------------
(* The verification task (main.rs:139-285)                                  *)

\* the address the discovery endpoint gives for a job once the instance is up
\* (one fixed address per job: the two tasks resolve different addresses)
DiscoveredAddress(job) == IF job = "0xabc1" THEN "3.4.5.6" ELSE "10.0.0.1"

\* what the refresh API call can give: no response, a body that is no JSON,
\* a JSON body without the "ip" key, a JSON body with it
RefreshResponses ==
    { [kind |-> "transport_error"],
      [kind |-> "not_json"],
      [kind |-> "json", ip |-> None],
      [kind |-> "json", ip |-> Some("3.4.5.6")] }

\* the address written when no address was resolved
ResolveSentinel == "N/A"

\* tokio::time::sleep(180 s) elapses
StartupElapsed(i) ==
    /\ i \in 1..Len(workers)
    /\ workers[i].stage = "AwaitingStartup"
    /\ workers' = [workers EXCEPT ![i].stage = "ResolvingAddress"]
    /\ UNCHANGED <<pollerVars, tableVars, initial_block, rpc_failed, lost,
                   queried, query_from, tickHistory>>

\* wait_for_ip_address: the discovery endpoint has no address yet, poll again
ResolverPoll(i) ==
    /\ i \in 1..Len(workers)
    /\ workers[i].stage = "ResolvingAddress"
    /\ workers[i].polls < MaxResolvePolls
    /\ workers' = [workers EXCEPT ![i].polls = @ + 1]
    /\ UNCHANGED <<pollerVars, tableVars, initial_block, rpc_failed, lost,
                   queried, query_from, tickHistory>>

\* wait_for_ip_address returns Ok(ip)
ResolveOk(i) ==
    /\ i \in 1..Len(workers)
    /\ workers[i].stage = "ResolvingAddress"
    /\ workers' = [workers EXCEPT ![i].instance_ip = DiscoveredAddress(workers[i].job),
                                  ![i].polls = 0,
                                  ![i].stage = "ProbingReachability"]
    /\ UNCHANGED <<pollerVars, tableVars, initial_block, rpc_failed, lost,
                   queried, query_from, tickHistory>>

ResolveErr_FallsThrough(i) ==
    /\ i \in 1..Len(workers)
    /\ workers[i].stage = "ResolvingAddress"
    /\ workers[i].polls = MaxResolvePolls
    /\ \E db \in DbOutcomes :
        LET w == workers[i]
            error_msg == "Failed to get IP address: " \o "timed out"
            new_error == NewError(w.job, OperatorStr(w.operator), ResolveSentinel, error_msg)
        IN  /\ reachability_errors' = Insert(reachability_errors, new_error, db)
            /\ workers' = [workers EXCEPT
                   ![i] = [Recorded(w, "reachability", new_error, db)
                              EXCEPT !.polls = 0, !.stage = "ProbingReachability"]]
    /\ UNCHANGED <<pollerVars, operator_endpoint_errors, initial_block, rpc_failed,
                   lost, queried, query_from, tickHistory>>

\* wait_for_ip_address returns Err(e): one reachability row, then return.
\* The resolver gives up once its polls are used up (its timeout).
ResolveErr(i) ==
    /\ i \in 1..Len(workers)
    /\ workers[i].stage = "ResolvingAddress"
    /\ workers[i].polls = MaxResolvePolls
    /\ \E db \in DbOutcomes :
        LET w == workers[i]
            error_msg == "Failed to get IP address: " \o "timed out"
            new_error == NewError(w.job, OperatorStr(w.operator), ResolveSentinel, error_msg)
        IN  /\ reachability_errors' = Insert(reachability_errors, new_error, db)
            /\ workers' = [workers EXCEPT
                   ![i] = [Recorded(w, "reachability", new_error, db)
                              EXCEPT !.polls = 0, !.stage = "Done"]]
    /\ UNCHANGED <<pollerVars, operator_endpoint_errors, initial_block, rpc_failed,
                   lost, queried, query_from, tickHistory>>

\* check_reachability(&instance_ip) is true
ProbeOk(i) ==
    /\ i \in 1..Len(workers)
    /\ workers[i].stage = "ProbingReachability"
    /\ workers' = [workers EXCEPT ![i].reachable = "yes",
                                  ![i].stage = "CrossChecking"]
    /\ UNCHANGED <<pollerVars, tableVars, initial_block, rpc_failed, lost,
                   queried, query_from, tickHistory>>

ProbeFailed_SentinelIp(i) ==
    /\ i \in 1..Len(workers)
    /\ workers[i].stage = "ProbingReachability"
    /\ \E db \in DbOutcomes :
        LET w == workers[i]
            error_msg == "Instance reachability test failed"
            new_error == NewError(w.job, OperatorStr(w.operator), ResolveSentinel, error_msg)
        IN  /\ reachability_errors' = Insert(reachability_errors, new_error, db)
            /\ workers' = [workers EXCEPT
                   ![i] = [Recorded(w, "reachability", new_error, db)
                              EXCEPT !.reachable = "no", !.stage = "CrossChecking"]]
    /\ UNCHANGED <<pollerVars, operator_endpoint_errors, initial_block, rpc_failed,
                   lost, queried, query_from, tickHistory>>

ProbeFailed_ResolvesAgain(i) ==
    /\ i \in 1..Len(workers)
    /\ workers[i].stage = "ProbingReachability"
    /\ workers' = [workers EXCEPT ![i].instance_ip = "",
                                  ![i].stage = "ResolvingAddress"]
    /\ UNCHANGED <<pollerVars, tableVars, initial_block, rpc_failed, lost,
                   queried, query_from, tickHistory>>

ProbeFailed_SkipsCrossCheck(i) ==
    /\ i \in 1..Len(workers)
    /\ workers[i].stage = "ProbingReachability"
    /\ \E db \in DbOutcomes :
        LET w == workers[i]
            error_msg == "Instance reachability test failed"
            new_error == NewError(w.job, OperatorStr(w.operator), w.instance_ip, error_msg)
        IN  /\ reachability_errors' = Insert(reachability_errors, new_error, db)
            /\ workers' = [workers EXCEPT
                   ![i] = [Recorded(w, "reachability", new_error, db)
                              EXCEPT !.reachable = "no", !.stage = "Done"]]
    /\ UNCHANGED <<pollerVars, operator_endpoint_errors, initial_block, rpc_failed,
                   lost, queried, query_from, tickHistory>>

ProbeFailed_AbortsOnDbError(i) ==
    /\ i \in 1..Len(workers)
    /\ workers[i].stage = "ProbingReachability"
    /\ \E db \in DbOutcomes :
        LET w == workers[i]
            error_msg == "Instance reachability test failed"
            new_error == NewError(w.job, OperatorStr(w.operator), w.instance_ip, error_msg)
        IN  /\ reachability_errors' = Insert(reachability_errors, new_error, db)
            /\ workers' = [workers EXCEPT
                   ![i] = [Recorded(w, "reachability", new_error, db)
                              EXCEPT !.reachable = "no",
                                     !.stage = IF db = "ok" THEN "CrossChecking"
                                               ELSE "Done"]]
    /\ UNCHANGED <<pollerVars, operator_endpoint_errors, initial_block, rpc_failed,
                   lost, queried, query_from, tickHistory>>

\* check_reachability(&instance_ip) is false: one reachability row, go on
ProbeFailed(i) ==
    /\ i \in 1..Len(workers)
    /\ workers[i].stage = "ProbingReachability"
    /\ \E db \in DbOutcomes :
        LET w == workers[i]
            error_msg == "Instance reachability test failed"
            new_error == NewError(w.job, OperatorStr(w.operator), w.instance_ip, error_msg)
        IN  /\ reachability_errors' = Insert(reachability_errors, new_error, db)
            /\ workers' = [workers EXCEPT
                   ![i] = [Recorded(w, "reachability", new_error, db)
                              EXCEPT !.reachable = "no", !.stage = "CrossChecking"]]
    /\ UNCHANGED <<pollerVars, operator_endpoint_errors, initial_block, rpc_failed,
                   lost, queried, query_from, tickHistory>>

RefreshError_Inverted(response) ==
    CASE response.kind = "transport_error" ->
            Some("Failed to call refresh API: " \o "connection refused")
      [] response.kind = "not_json" ->
            Some("Failed to parse refresh API response: " \o "expected value")
      [] response.kind = "json" /\ response.ip # None ->
            Some("IP key NOT found in refresh API response")
      [] OTHER -> None

RefreshError_SameMessage(response) ==
    CASE response.kind = "transport_error" ->
            Some("Failed to call refresh API")
      [] response.kind = "not_json" ->
            Some("Failed to call refresh API")
      [] response.kind = "json" /\ response.ip = None ->
            Some("IP key NOT found in refresh API response")
      [] OTHER -> None

\* the message of the endpoint row for a refresh response, None for a pass
RefreshError(response) ==
    CASE response.kind = "transport_error" ->
            Some("Failed to call refresh API: " \o "connection refused")
      [] response.kind = "not_json" ->
            Some("Failed to parse refresh API response: " \o "expected value")
      [] response.kind = "json" /\ response.ip = None ->
            Some("IP key NOT found in refresh API response")
      [] OTHER -> None

\* client.get(refresh_url).send(), response.json(), json.get("ip"): a pass
CrossCheckOk(i) ==
    /\ i \in 1..Len(workers)
    /\ workers[i].stage = "CrossChecking"
    /\ \E response \in RefreshResponses :
        /\ RefreshError(response) = None
        /\ workers' = [workers EXCEPT ![i].refresh = response, ![i].stage = "Done"]
    /\ UNCHANGED <<pollerVars, tableVars, initial_block, rpc_failed, lost,
                   queried, query_from, tickHistory>>

CrossCheckFailed_OnMismatch(i) ==
    /\ i \in 1..Len(workers)
    /\ workers[i].stage = "CrossChecking"
    /\ \E response \in RefreshResponses, db \in DbOutcomes :
        LET w == workers[i]
            error == IF RefreshError(response) # None THEN RefreshError(response)
                     ELSE IF response.ip[1] # w.instance_ip
                          THEN Some("IP in refresh API response differs")
                          ELSE None
        IN  /\ error # None
            /\ LET new_error == NewError(w.job, OperatorStr(w.operator), w.instance_ip,
                                         error[1])
               IN  /\ operator_endpoint_errors' = Insert(operator_endpoint_errors, new_error, db)
                   /\ workers' = [workers EXCEPT
                          ![i] = [Recorded(w, "endpoint", new_error, db)
                                     EXCEPT !.refresh = response, !.stage = "Done"]]
    /\ UNCHANGED <<pollerVars, reachability_errors, initial_block, rpc_failed,
                   lost, queried, query_from, tickHistory>>

\* the refresh call fails, or its body does not parse, or has no "ip" key:
\* one endpoint row
CrossCheckFailed(i) ==
    /\ i \in 1..Len(workers)
    /\ workers[i].stage = "CrossChecking"
    /\ \E response \in RefreshResponses, db \in DbOutcomes :
        /\ RefreshError(response) # None
        /\ LET w == workers[i]
               new_error == NewError(w.job, OperatorStr(w.operator), w.instance_ip,
                                     RefreshError(response)[1])
           IN  /\ operator_endpoint_errors' = Insert(operator_endpoint_errors, new_error, db)
               /\ workers' = [workers EXCEPT
                      ![i] = [Recorded(w, "endpoint", new_error, db)
                                 EXCEPT !.refresh = response, !.stage = "Done"]]
    /\ UNCHANGED <<pollerVars, reachability_errors, initial_block, rpc_failed,
                   lost, queried, query_from, tickHistory>>

\* one step of task i
WorkerStep(i) ==
    \/ StartupElapsed(i)
    \/ ResolverPoll(i)
    \/ ResolveOk(i)
    \/ ResolveErr(i)
    \/ ProbeOk(i)
    \/ ProbeFailed(i)
    \/ CrossCheckOk(i)
    \/ CrossCheckFailed(i)

\* tasks the chain of the model can give rise to
MaxWorkers == Cardinality({e \in AllLogs : e.block > 0 /\ InScope(e)})

----------------------------------------------------------------------------
(* The system *)

\* The state after startup: the pool is built and the first block-number
\* query has set the watermark (a failure of that query ends the process
\* before the loop starts).
Init ==
    /\ last_checked_block \in 0..MaxInitialBlock
    /\ initial_block = last_checked_block
    /\ current_block = NoBlock
    /\ events = << >>
    /\ pc = "tick"
    /\ workers = << >>
    /\ reachability_errors = EmptyBag
    /\ operator_endpoint_errors = EmptyBag
    /\ rpc_failed = FALSE
    /\ lost = {}
    /\ queried = [b \in 1..MaxBlock |-> 0]
    /\ query_from = NoBlock
    /\ tick_outcome = "none"
    /\ tick_start_wm = last_checked_block
    /\ tick_start_spawned = 0

Next ==
    \/ PollHeadErr
    \/ PollHeadNoNew
    \/ PollHeadNew
    \/ QueryEventsErr
    \/ QueryEventsOk
    \/ HandleEventLookupErr
    \/ HandleEvent
    \/ AdvanceWatermark
    \/ \E i \in 1..Len(workers) : WorkerStep(i)

Spec == Init /\ [][Next]_vars

\* every spawned task keeps being scheduled by the runtime
FairSpec == Spec /\ \A i \in 1..MaxWorkers : WF_vars(WorkerStep(i))

----------------------------------------------------------------------------
(* Vocabulary of the properties *)

Failed == {"head_failed", "query_failed"}

Spawned == 1..Len(workers)

Dispatched(job) == \E i \in Spawned : workers[i].job = job

\* rows of a table that name a job
RowsOf(table, job) == {r \in BagToSet(table) : r.job = job}

\* number of rows of a table that name a job
RowCount(table, job) ==
    LET rows == RowsOf(table, job)
        RECURSIVE Sum(_)
        Sum(S) == IF S = {} THEN 0
                  ELSE LET r == CHOOSE x \in S : TRUE
                       IN  CopiesIn(r, table) + Sum(S \ {r})
    IN  Sum(rows)

\* write attempts a task made on a table, and those that stored a row
Attempts(w, kind) == SelectSeq(w.records, LAMBDA r : r.table = kind)
Stored(w, kind) == SelectSeq(w.records, LAMBDA r : r.table = kind /\ r.db = "ok")

\* the events the metadata filter must leave out, read off the raw payload
Excluded(event) ==
    \/ ~event.metadata.json
    \/ event.metadata.url = None
    \/ event.metadata.url[1] \notin allowed_urls

\* the blocks the event query has been given once, in a failure-free run
OnceIn(lo, hi) == [b \in 1..MaxBlock |-> IF lo < b /\ b <= hi THEN 1 ELSE 0]

\* the refresh response is a pass: it parsed and has the "ip" key
RefreshPassed(w) ==
    /\ w.refresh.kind = "json"
    /\ w.refresh.ip # None

RefreshFailed(w) == w.refresh.kind # "not_called" /\ ~RefreshPassed(w)

\* the task ended in address resolution
ResolutionFailed(w) == w.stage = "Done" /\ w.instance_ip = ""

----------------------------------------------------------------------------
(* C1: block ranges of the event query *)

\* C1 as stated: after the ticks of a run without RPC failures, every block of
\* [initialWatermark+1, finalHead] has been queried exactly once and no other
\* block has been queried, finalHead being the head the last tick observed.
C1_CoversUpToFinalHead ==
    (pc = "tick" /\ ~rpc_failed /\ lost = {} /\ tick_outcome \in {"no_new", "advanced"})
        => queried = OnceIn(initial_block, current_block)

\* C1 (amended): in a run without RPC failures the ranges given to the event
\* query are pairwise disjoint and their union is exactly
\* [initialWatermark+1, watermark] between ticks, and
\* [initialWatermark+1, current head] while the events of a range are handled:
\* no block is skipped and no block is queried twice.
C1_RangesPartition ==
    ~rpc_failed =>
        queried = OnceIn(initial_block,
                         IF pc = "events" THEN current_block ELSE last_checked_block)

C1_Witness ==
    /\ ~rpc_failed
    /\ pc = "tick"
    /\ tick_outcome = "advanced"
    /\ tick_start_wm > initial_block
    /\ last_checked_block = MaxBlock

----------------------------------------------------------------------------
(* C2: no in-scope event behind the watermark is lost *)

\* C2: in every reachable state every in-scope job-open event of a block in
\* (initialWatermark, watermark] has been handed to a verification task,
\* whichever RPC call failed.
C2_NoEventLost ==
    \A e \in AllLogs :
        (~Excluded(e) /\ initial_block < e.block /\ e.block <= last_checked_block)
            => Dispatched(JobString(e.job))

----------------------------------------------------------------------------
(* C3: a failed block-number or event query *)

\* C3: a tick whose block-number query or event query fails leaves the
\* watermark where it was when the tick started and spawns no task; the tick
\* that follows starts from that same watermark, and every event query starts
\* at the watermark of its tick plus one.
C3_FailedTickRetries ==
    /\ []( /\ (pc = "tick" /\ tick_outcome \in Failed)
                => /\ last_checked_block = tick_start_wm
                   /\ Len(workers) = tick_start_spawned
           /\ query_from # NoBlock => query_from = tick_start_wm + 1 )
    /\ [][ (pc = "tick" /\ tick_outcome \in Failed) => tick_start_wm' = tick_start_wm ]_vars

\* the query of the range [2, 3], which holds an in-scope event, has failed
C3_Witness ==
    /\ pc = "tick"
    /\ tick_outcome = "query_failed"
    /\ query_from = 2
    /\ current_block = 3
    /\ Len(workers) = 1

----------------------------------------------------------------------------
(* C4: the watermark never decreases *)

\* C4: no step lowers the watermark, whatever heads are observed and whatever
\* RPC calls fail.
C4_WatermarkMonotonic == [][last_checked_block' >= last_checked_block]_vars

\* a head below the watermark has been observed in a run with RPC failures
C4_Witness ==
    /\ pc = "tick"
    /\ tick_outcome = "no_new"
    /\ current_block < last_checked_block
    /\ rpc_failed

----------------------------------------------------------------------------
(* C5: the watermark after a tick *)

\* C5 as stated: in a run without RPC failures the watermark after a tick is
\* the head that tick observed.
C5_WatermarkIsHead ==
    (pc = "tick" /\ ~rpc_failed /\ lost = {} /\ tick_outcome \in {"no_new", "advanced"})
        => last_checked_block = current_block

\* C5 (amended): in a run without RPC failures the watermark after a tick is
\* the larger of the watermark before the tick and the head the tick observed:
\* it is that head unless the head is below the watermark.
C5_WatermarkIsMaxOfHead ==
    (pc = "tick" /\ ~rpc_failed /\ tick_outcome \in {"no_new", "advanced"})
        => last_checked_block = Max(tick_start_wm, current_block)

C5_Witness ==
    /\ pc = "tick"
    /\ ~rpc_failed
    /\ tick_outcome = "advanced"
    /\ tick_start_wm > initial_block
    /\ current_block > tick_start_wm + 1

----------------------------------------------------------------------------
(* C6: events the metadata filter leaves out *)

\* C6: an event whose metadata does not parse, has no image URL or has an
\* image URL outside the allow-list gets no task and no row in either table;
\* a tick that handled its range still ends with the watermark at the head,
\* every other event of the range having got its task (unless its providers()
\* lookup failed).
C6_ExcludedEventsAreSkipped ==
    /\ \A e \in AllLogs :
        Excluded(e) =>
            /\ ~Dispatched(JobString(e.job))
            /\ RowsOf(reachability_errors, JobString(e.job)) = {}
            /\ RowsOf(operator_endpoint_errors, JobString(e.job)) = {}
    /\ (pc = "tick" /\ tick_outcome = "advanced") =>
            /\ last_checked_block = current_block
            /\ \A e \in AllLogs :
                (~Excluded(e) /\ tick_start_wm < e.block /\ e.block <= current_block)
                    => (Dispatched(JobString(e.job)) \/ JobString(e.job) \in lost)

\* one tick handled the range [2, 3]: a malformed event, an in-scope event that
\* got its task, an event without URL and one with a URL outside the list
C6_Witness ==
    /\ pc = "tick"
    /\ tick_outcome = "advanced"
    /\ tick_start_wm = 1
    /\ last_checked_block = 3
    /\ Dispatched("0xabc3")

----------------------------------------------------------------------------
(* C7: address resolution fails *)

\* C7: a task whose address resolution failed has made exactly one
\* reachability record, with the address "unknown", no endpoint record, and
\* has run neither the probe nor the cross-check.
C7_UnknownSentinel ==
    \A i \in Spawned :
        ResolutionFailed(workers[i]) =>
            /\ Len(Attempts(workers[i], "reachability")) = 1
            /\ Attempts(workers[i], "reachability")[1].row.ip = "unknown"
            /\ Attempts(workers[i], "endpoint") = << >>
            /\ workers[i].reachable = "untested"
            /\ workers[i].refresh = NotCalled

----------------------------------------------------------------------------
(* C8: probe and cross-check both fail *)

\* C8: a task whose address resolved, whose probe failed and whose cross-check
\* failed has made exactly one reachability record, carrying the resolved
\* address, and exactly one endpoint record; each is stored as one row when
\* its write succeeds.
C8_BothChecksFail ==
    \A i \in Spawned :
        LET w == workers[i] IN
        (w.instance_ip # "" /\ w.reachable = "no" /\ RefreshFailed(w)) =>
            /\ Len(Attempts(w, "reachability")) = 1
            /\ Len(Attempts(w, "endpoint")) = 1
            /\ Len(w.records) = 2
            /\ Attempts(w, "reachability")[1].row.ip = w.instance_ip
            /\ Attempts(w, "reachability")[1].row.job = w.job
            /\ Attempts(w, "endpoint")[1].row.job = w.job
            /\ w.instance_ip = DiscoveredAddress(w.job)
            /\ RowCount(reachability_errors, w.job) = Len(Stored(w, "reachability"))
            /\ RowCount(operator_endpoint_errors, w.job) = Len(Stored(w, "endpoint"))

C8_Witness ==
    \E i \in Spawned :
        /\ workers[i].instance_ip # ""
        /\ workers[i].reachable = "no"
        /\ RefreshFailed(workers[i])
        /\ RowCount(reachability_errors, workers[i].job) = 1
        /\ RowCount(operator_endpoint_errors, workers[i].job) = 1

----------------------------------------------------------------------------
(* C9: both checks pass *)

\* C9: a task whose address resolved, whose probe succeeded and whose refresh
\* response parsed and holds the "ip" key is Done, has made no record and has
\* no row in either table.
C9_PassWritesNothing ==
    \A i \in Spawned :
        LET w == workers[i] IN
        (w.instance_ip # "" /\ w.reachable = "yes" /\ RefreshPassed(w)) =>
            /\ w.stage = "Done"
            /\ w.records = << >>
            /\ RowsOf(reachability_errors, w.job) = {}
            /\ RowsOf(operator_endpoint_errors, w.job) = {}

C9_Witness ==
    \E i \in Spawned :
        /\ workers[i].instance_ip # ""
        /\ workers[i].reachable = "yes"
        /\ RefreshPassed(workers[i])
        /\ workers[i].stage = "Done"

----------------------------------------------------------------------------
(* C10: every task ends *)

\* C10: under fair scheduling of the tasks, every spawned task eventually
\* reaches Done, whatever its resolution, probe, cross-check and writes give.
C10_WorkersReachDone ==
    \A i \in 1..MaxWorkers :
        (Len(workers) >= i) ~> (Len(workers) >= i /\ workers[i].stage = "Done")

\* two tasks are Done, one ended in address resolution, the other went through
\* a failed probe and a failed cross-check with a failed write
C10_Witness ==
    /\ Len(workers) = 2
    /\ \A i \in Spawned : workers[i].stage = "Done"
    /\ \E i \in Spawned : ResolutionFailed(workers[i])
    /\ \E i \in Spawned :
        /\ workers[i].reachable = "no"
        /\ RefreshFailed(workers[i])
        /\ \E k \in 1..Len(workers[i].records) : workers[i].records[k].db # "ok"

----------------------------------------------------------------------------
(* C11: tasks in flight do not hold up the poller *)

\* C11: in every reachable state, whatever the stages of the spawned tasks,
\* the step the poller is at can be taken: the tick and its block-number
\* query, the event query, the handling of the next event (which spawns
\* without waiting) and the watermark update.
C11_PollerNeverWaitsForTasks ==
    /\ pc = "tick" =>
            /\ ENABLED PollHeadErr
            /\ ENABLED PollHeadNoNew
            /\ (last_checked_block < MaxBlock => ENABLED PollHeadNew)
    /\ pc = "query" => (ENABLED QueryEventsOk /\ ENABLED QueryEventsErr)
    /\ (pc = "events" /\ events # << >>) => ENABLED HandleEvent
    /\ (pc = "events" /\ events = << >>) => ENABLED AdvanceWatermark

\* a tick that started with the first task in flight has spawned the second
\* task and advanced the watermark, the first task still in its startup delay
\* and the second at its cross-check
C11_Witness ==
    /\ pc = "tick"
    /\ tick_outcome = "advanced"
    /\ tick_start_spawned = 1
    /\ Len(workers) = 2
    /\ workers[1].stage = "AwaitingStartup"
    /\ workers[2].stage = "CrossChecking"

----------------------------------------------------------------------------
(* C12: a failed write neither ends the task early nor is tried again *)

\* the task made a write that failed: no connection, or the insert failed
HasFailedWrite(w) == \E k \in 1..Len(w.records) : w.records[k].db # "ok"

\* the failed write of a task on a table was its only write on that table
\* and left no row of the job there
FailedWriteNotRetried(w) ==
    \A k \in 1..Len(w.records) :
        w.records[k].db # "ok" =>
            /\ Len(Attempts(w, w.records[k].table)) = 1
            /\ RowCount(IF w.records[k].table = "reachability"
                        THEN reachability_errors
                        ELSE operator_endpoint_errors, w.job) = 0

\* after a failed write of the probe-failure row the task is at its
\* cross-check or has made the refresh call
FailedProbeWriteGoesOn(w) ==
    (w.records # << >> /\ w.records[1].db # "ok" /\ w.records[1].row.ip # ResolveSentinel) =>
        /\ w.stage \in {"CrossChecking", "Done"}
        /\ w.stage = "Done" => w.refresh.kind # "not_called"

\* C12: a write that fails (no connection, or a failed insert) is attempted
\* once and leaves no row; a task whose probe-failure write failed still makes
\* the refresh call; and a task with a failed write still reaches Done.
C12_FailedWriteIsAbsorbed ==
    /\ [](\A i \in Spawned : /\ FailedWriteNotRetried(workers[i])
                             /\ FailedProbeWriteGoesOn(workers[i]))
    /\ \A i \in 1..MaxWorkers :
          (Len(workers) >= i /\ HasFailedWrite(workers[i]))
              ~> (Len(workers) >= i /\ workers[i].stage = "Done")

\* a task is Done after its probe-failure write found no connection and its
\* endpoint insert failed, having made the refresh call in between
C12_Witness ==
    \E i \in Spawned :
        /\ workers[i].stage = "Done"
        /\ Len(workers[i].records) = 2
        /\ workers[i].records[1].table = "reachability"
        /\ workers[i].records[1].db = "no_conn"
        /\ workers[i].records[2].table = "endpoint"
        /\ workers[i].records[2].db = "insert_err"
        /\ workers[i].refresh.kind = "transport_error"

----------------------------------------------------------------------------
(* C13: a start of the process begins at the chain head *)

\* C13: the watermark of a started process is the head read at startup, and
\* no event of a block at or below that head is ever handed to a task: every
\* spawned task is for an event of a block strictly above the startup head.
C13_StartsAtHead ==
    /\ initial_block <= last_checked_block
    /\ \A e \in AllLogs :
          e.block <= initial_block => ~Dispatched(JobString(e.job))
    /\ \A i \in Spawned :
          \E e \in AllLogs : /\ JobString(e.job) = workers[i].job
                             /\ e.block > initial_block

\* a process started at head 1 has advanced to head 3 and spawned the task of
\* the in-scope event of block 2, not that of the in-scope event of block 1
C13_Witness ==
    /\ initial_block = 1
    /\ last_checked_block = 3
    /\ pc = "tick"
    /\ Dispatched("0xabc3")
    /\ ~Dispatched("0xabc1")

----------------------------------------------------------------------------
(* C14: the order of the stages of a task *)

\* the stage changes a task may make
StageOrder ==
    { <<"AwaitingStartup", "ResolvingAddress">>,
      <<"ResolvingAddress", "ProbingReachability">>,
      <<"ResolvingAddress", "Done">>,
      <<"ProbingReachability", "CrossChecking">>,
      <<"CrossChecking", "Done">> }

\* what a task has done, read off its stage
StageMatchesProgress(w) ==
    /\ w.stage \in {"AwaitingStartup", "ResolvingAddress"} =>
            /\ w.instance_ip = ""
            /\ w.reachable = "untested"
            /\ w.refresh.kind = "not_called"
            /\ w.records = << >>
    /\ w.stage = "ProbingReachability" =>
            /\ w.instance_ip # ""
            /\ w.reachable = "untested"
            /\ w.refresh.kind = "not_called"
    /\ w.stage = "CrossChecking" =>
            /\ w.instance_ip # ""
            /\ w.reachable \in {"yes", "no"}
            /\ w.refresh.kind = "not_called"
    /\ w.stage = "Done" =>
            \/ /\ w.instance_ip = ""
               /\ w.reachable = "untested"
               /\ w.refresh.kind = "not_called"
            \/ /\ w.instance_ip # ""
               /\ w.reachable \in {"yes", "no"}
               /\ w.refresh.kind # "not_called"

\* C14: every step of a task moves it along AwaitingStartup, ResolvingAddress,
\* ProbingReachability, CrossChecking, Done, skipping the probe and the
\* cross-check exactly when no address was resolved; nothing is done before
\* the startup delay has passed; the cross-check follows the probe whether the
\* probe succeeded or failed; a spawned task starts in AwaitingStartup.
C14_StagesInOrder ==
    [][ /\ \A i \in Spawned :
              /\ workers'[i].stage # workers[i].stage =>
                     <<workers[i].stage, workers'[i].stage>> \in StageOrder
              /\ StageMatchesProgress(workers[i])
              /\ StageMatchesProgress(workers'[i])
              /\ (workers[i].stage = "ResolvingAddress" /\ workers'[i].stage = "Done")
                     => workers'[i].instance_ip = ""
              /\ workers'[i].stage = "ProbingReachability" => workers'[i].instance_ip # ""
        /\ \A i \in 1..Len(workers') :
              i > Len(workers) => workers'[i].stage = "AwaitingStartup" ]_vars

\* one task is Done after a failed probe and a cross-check, the other is Done
\* after a failed resolution without probe or cross-check
C14_Witness ==
    /\ Len(workers) = 2
    /\ \E i \in Spawned :
          /\ workers[i].stage = "Done"
          /\ workers[i].reachable = "no"
          /\ RefreshPassed(workers[i])
    /\ \E i \in Spawned :
          /\ ResolutionFailed(workers[i])
          /\ workers[i].reachable = "untested"
          /\ workers[i].refresh.kind = "not_called"

----------------------------------------------------------------------------
(* C15: the spawns of a tick *)

\* the place of a job's event in the order the chain client returns events
QueryPosition(job) ==
    LET all == LogsInRange(0, MaxBlock)
    IN  CHOOSE k \in 1..Len(all) : JobString(all[k].job) = job

\* the tasks spawned since the start of the tick stand in event-query order
SpawnedInQueryOrder ==
    \A i, j \in Spawned :
        (tick_start_spawned < i /\ i < j) =>
            QueryPosition(workers[i].job) < QueryPosition(workers[j].job)

\* C15: within one tick the tasks are spawned in the order of the event query
\* result, and all of them before the watermark moves: a spawning step leaves
\* the watermark at its value of the start of the tick, and the watermark
\* moves only once no event of the tick is left, in a step that spawns nothing.
C15_SpawnsOrderedBeforeAdvance ==
    [][ /\ SpawnedInQueryOrder'
        /\ Len(workers') > Len(workers) =>
              /\ last_checked_block' = last_checked_block
              /\ last_checked_block = tick_start_wm
        /\ last_checked_block' # last_checked_block =>
              /\ pc = "events"
              /\ events = << >>
              /\ Len(workers') = Len(workers) ]_vars

\* one tick that started with no task spawned the tasks of the in-scope
\* events of blocks 1 and 2, in that order, and then advanced the watermark
C15_Witness ==
    /\ pc = "tick"
    /\ tick_outcome = "advanced"
    /\ tick_start_spawned = 0
    /\ tick_start_wm = 0
    /\ last_checked_block >= 2
    /\ Len(workers) = 2
    /\ workers[1].job = "0xabc1"
    /\ workers[2].job = "0xabc3"

----------------------------------------------------------------------------
(* C16: the three kinds of cross-check failure *)

\* the kinds of failure a refresh response shows (the empty set for a pass)
FailureKinds(response) ==
    {k \in {"transport", "unparseable", "missing_field"} :
        \/ k = "transport" /\ response.kind = "transport_error"
        \/ k = "unparseable" /\ response.kind = "not_json"
        \/ k = "missing_field" /\ response.kind = "json" /\ response.ip = None}

\* C16: a refresh call that fails in transport, or whose body is no JSON, or
\* whose JSON has no "ip" field, gives exactly one endpoint record, with the
\* resolved address and a message that tells the kind: a response shows at
\* most one of the three kinds, and two tasks with failures of different
\* kinds have records with different messages.
C16_ThreeFailureKinds ==
    /\ \A i \in Spawned :
          LET w == workers[i]
              kinds == FailureKinds(w.refresh)
              attempts == Attempts(w, "endpoint")
          IN  /\ Cardinality(kinds) <= 1
              /\ Cardinality(kinds) = 1 <=> Len(attempts) = 1
              /\ Len(attempts) <= 1
              /\ Len(attempts) = 1 =>
                    /\ attempts[1].row.ip = w.instance_ip
                    /\ attempts[1].row.ip = DiscoveredAddress(w.job)
                    /\ attempts[1].row.job = w.job
                    /\ attempts[1].db = "ok" =>
                          RowsOf(operator_endpoint_errors, w.job) = {attempts[1].row}
    /\ \A i, j \in Spawned :
          LET a == Attempts(workers[i], "endpoint")
              b == Attempts(workers[j], "endpoint")
          IN  (Len(a) = 1 /\ Len(b) = 1) =>
                  (a[1].row.error = b[1].row.error
                      <=> FailureKinds(workers[i].refresh) = FailureKinds(workers[j].refresh))

\* the refresh call of one task failed in transport and that of the other
\* gave a body that is no JSON, each with its endpoint row stored
C16_Witness ==
    /\ Len(workers) = 2
    /\ \E i, j \in Spawned :
          /\ workers[i].refresh.kind = "transport_error"
          /\ workers[j].refresh.kind = "not_json"
          /\ Len(Stored(workers[i], "endpoint")) = 1
          /\ Len(Stored(workers[j], "endpoint")) = 1
          /\ RowCount(operator_endpoint_errors, workers[i].job) = 1
          /\ RowCount(operator_endpoint_errors, workers[j].job) = 1

----------------------------------------------------------------------------
(* C17: the writes of one task *)

\* C17: a task makes at most one write on the reachability table and at most
\* one on the endpoint table, so at most two in all, and each table holds at
\* most one row of its job; a task that wrote the resolution-failure record
\* (the one with the sentinel address) made no other write.
C17_AtMostOneWritePerTable ==
    \A i \in Spawned :
        LET w == workers[i]
        IN  /\ Len(Attempts(w, "reachability")) <= 1
            /\ Len(Attempts(w, "endpoint")) <= 1
            /\ Len(w.records) <= 2
            /\ RowCount(reachability_errors, w.job) = Len(Stored(w, "reachability"))
            /\ RowCount(operator_endpoint_errors, w.job) = Len(Stored(w, "endpoint"))
            /\ (\E k \in 1..Len(w.records) : w.records[k].row.ip = ResolveSentinel) =>
                  /\ Len(w.records) = 1
                  /\ w.records[1].table = "reachability"
                  /\ RowCount(operator_endpoint_errors, w.job) = 0

\* one task stored a probe-failure row and an endpoint row, the other stored
\* the resolution-failure row alone
C17_Witness ==
    /\ Len(workers) = 2
    /\ \E i, j \in Spawned :
          /\ workers[i].stage = "Done"
          /\ Len(Stored(workers[i], "reachability")) = 1
          /\ Len(Stored(workers[i], "endpoint")) = 1
          /\ RowCount(reachability_errors, workers[i].job) = 1
          /\ RowCount(operator_endpoint_errors, workers[i].job) = 1
          /\ ResolutionFailed(workers[j])
          /\ Len(Stored(workers[j], "reachability")) = 1
          /\ workers[j].records[1].row.ip = ResolveSentinel

----------------------------------------------------------------------------
(* C18: one task per event *)

\* C18: whatever the interleaving of ticks, failed block-number queries and
\* failed event queries, no two spawned tasks are for the same job-open
\* event: each event of the chain has at most one task.
C18_NoEventDispatchedTwice ==
    /\ \A i, j \in Spawned : i # j => workers[i].job # workers[j].job
    /\ \A e \in AllLogs :
          Cardinality({i \in Spawned : workers[i].job = JobString(e.job)}) <= 1
    /\ Len(workers) <= MaxWorkers

\* after a tick whose block-number or event query failed, a later tick that
\* started at watermark 0 spawned the tasks of both in-scope events, once each
C18_Witness ==
    /\ rpc_failed
    /\ initial_block = 0
    /\ pc = "tick"
    /\ tick_outcome = "advanced"
    /\ tick_start_wm = 0
    /\ Len(workers) = 2
    /\ workers[1].job # workers[2].job

----------------------------------------------------------------------------
(* C19: the log of a failed write *)

\* the failed writes of a task
FailedWrites(w) == SelectSeq(w.records, LAMBDA r : r.db # "ok")

\* C19: every failed write of a task, a failed insert as well as a connection
\* that could not be obtained, has emitted one error log.
C19_EveryFailedWriteLogged ==
    \A i \in Spawned : workers[i].db_error_logs = Len(FailedWrites(workers[i]))

----------------------------------------------------------------------------
(* C20: the cross-check verdict is a function of the refresh response *)

\* the task made an endpoint write
WroteEndpointFailure(w) == Len(Attempts(w, "endpoint")) > 0

\* C20: two tasks that got the same refresh response, whatever their resolved
\* addresses and probe results, both made an endpoint write or both made
\* none; and a task whose response has an "ip" field different from its
\* resolved address made no endpoint write.
C20_VerdictDependsOnResponseOnly ==
    /\ \A i, j \in Spawned :
          (/\ workers[i].stage = "Done"
           /\ workers[j].stage = "Done"
           /\ workers[i].refresh.kind # "not_called"
           /\ workers[i].refresh = workers[j].refresh) =>
              (WroteEndpointFailure(workers[i]) <=> WroteEndpointFailure(workers[j]))
    /\ \A i \in Spawned :
          LET w == workers[i]
          IN  (/\ w.refresh.kind = "json"
               /\ w.refresh.ip # None
               /\ w.refresh.ip[1] # w.instance_ip) =>
                  /\ ~WroteEndpointFailure(w)
                  /\ RowCount(operator_endpoint_errors, w.job) = 0

\* two tasks got the same response with an "ip" field: one resolved that
\* address and its probe succeeded, the other resolved a different address
\* and its probe failed; neither made an endpoint write
C20_Witness ==
    \E i, j \in Spawned :
        /\ workers[i].stage = "Done"
        /\ workers[j].stage = "Done"
        /\ workers[i].refresh = workers[j].refresh
        /\ workers[i].refresh.kind = "json"
        /\ workers[i].refresh.ip # None
        /\ workers[i].refresh.ip[1] = workers[i].instance_ip
        /\ workers[j].refresh.ip[1] # workers[j].instance_ip
        /\ workers[i].reachable = "yes"
        /\ workers[j].reachable = "no"
        /\ ~WroteEndpointFailure(workers[i])
        /\ ~WroteEndpointFailure(workers[j])

====
